---- MODULE Spec2Model ----
(***************************************************************************)
(* Retrieval-and-inference pipeline of job-offers-analyzer.                *)
(*                                                                         *)
(*   SpecHttp   one HttpClient.get_json call, one action per loop          *)
(*              iteration (src/src/fetch_offers.py).                       *)
(*   SpecFetch  one JobOffersFetcher.get_all_offers run, one action per    *)
(*              fetch_page call (src/src/fetch_offers.py).                 *)
(*   SpecGemini one GeminiAnalyzer._call_gemini_with_retries call, one     *)
(*              action per attempt (src/src/analyze_offers.py).            *)
(*   SpecFilter one GeminiAnalyzer.filter_offers run, one action per       *)
(*              batch (src/src/analyze_offers.py).                         *)
(***************************************************************************)
EXTENDS Integers, Sequences, FiniteSets, TLC

(***************************************************************************)
(* Bounds of the model.                                                    *)
(***************************************************************************)
MaxRetries == 3
DEFAULT_MAX_RETRIES == 3
DEFAULT_BACKOFF_SECONDS == 1
MaxBackoffSeconds == 2
MaxTotalPages == 3
MaxPostings == 3
MaxAttempts == 3
MaxListLen == 1
MaxOffers == 3
MaxBatchSize == 2
MaxMatches == 3
DEFAULT_MAX_ATTEMPTS == 3
DEFAULT_GEMINI_BACKOFF == 1
DEFAULT_BATCH_SIZE == 25

VARIABLES
    \* HttpClient configuration and the locals of one get_json call
    max_retries, backoff_seconds, http, h_log,
    \* JobOffersFetcher.get_all_offers: its parameter, its locals, and what the
    \* run has done so far (requested: the pages asked of fetch_page, in order;
    \* fetched: the results of every page that validated; later_disagree:
    \* whether a page after the first reported another totalPages)
    max_pages, f_pc, total_pages_api, total_pages, p, seen, consolidated,
    requested, fetched, later_disagree, raised, ret,
    \* analyze_offers.py configuration (module level, read from the environment)
    MAX_ATTEMPTS, BACKOFF_SECONDS, BATCH_SIZE,
    \* one _call_gemini_with_retries call: its batch_idx, its locals, the
    \* outcome of every attempt so far, the diagnostic files it has written and
    \* the list it parsed
    g_batch_idx, gem, g_log, g_artifacts, g_parsed,
    \* the try block of one attempt from the text extracted of the response:
    \* the text, what _clean_response_text made of it, and how the attempt ends
    c_pc, c_text, c_cleaned, c_result,
    \* GeminiAnalyzer.filter_offers: its argument, its locals, every batch
    \* submitted so far (its batch_idx, its postings, what came back for it),
    \* data/matches.json, and how it ended
    offers, a_pc, batches, batch_idx, all_matches, seen_ids, batch_log,
    matches_file, a_raised, a_ret

http_vars == <<max_retries, backoff_seconds, http, h_log>>
fetch_vars == <<max_pages, f_pc, total_pages_api, total_pages, p, seen,
                consolidated, requested, fetched, later_disagree, raised,
                ret>>
config_vars == <<MAX_ATTEMPTS, BACKOFF_SECONDS, BATCH_SIZE>>
gemini_vars == <<g_batch_idx, gem, g_log, g_artifacts, g_parsed>>
clean_vars == <<c_pc, c_text, c_cleaned, c_result>>
filter_vars == <<offers, a_pc, batches, batch_idx, all_matches, seen_ids,
                 batch_log, matches_file, a_raised, a_ret>>
analyze_vars == <<config_vars, gemini_vars, clean_vars, filter_vars>>
vars == <<http_vars, fetch_vars, analyze_vars>>

(***************************************************************************)
(* Python values.                                                          *)
(***************************************************************************)
\* None, as dict.get returns it for a missing key
None == "<None>"

\* bool(v) of a string or None
Truthy(v) == v # None /\ v # ""

\* a or b
Or(a, b) == IF Truthy(a) THEN a ELSE b

\* d.get(k)
Get(d, k) == IF k \in DOMAIN d THEN d[k] ELSE None

SeqsUpTo(S, n) == UNION {[1..k -> S] : k \in 0..n}

RECURSIVE Flatten(_)
Flatten(ss) == IF ss = <<>> THEN <<>> ELSE Head(ss) \o Flatten(Tail(ss))

Min(a, b) == IF a <= b THEN a ELSE b

(***************************************************************************)
(* Transport: HttpClient.get_json.                                         *)
(***************************************************************************)
RetryStatuses == {429, 500, 502, 503, 504}

Statuses == {200, 400, 404} \cup RetryStatuses

\* requests.Response.ok: no 4xx or 5xx status
ok(status_code) == status_code < 400

\* What one session.get can end in: a response (its status, and whether its
\* body parses as JSON) or one of the two network exceptions the loop catches.
Responses ==
    {[exc |-> "none", status_code |-> s, body |-> "json"] : s \in Statuses}
        \cup {[exc |-> "none", status_code |-> 200, body |-> "garbage"]}

NetworkErrors ==
    {[exc |-> e, status_code |-> 0, body |-> "none"] :
        e \in {"Timeout", "ConnectionError"}}

Outcomes == Responses \cup NetworkErrors

\* the locals of get_json on entry to the loop
get_json_enter(retries, base) ==
    [pc |-> IF retries >= 1 THEN "attempt" ELSE "raised",
     attempt |-> 1, backoff |-> base, requests |-> 0, sleeps |-> <<>>,
     result |-> IF retries >= 1 THEN "none" ELSE "HttpError"]

\* faulty variant: the delay is not doubled
http_retry_no_doubling(h) ==
    [h EXCEPT !.attempt = h.attempt + 1,
              !.sleeps = Append(h.sleeps, h.backoff)]

\* time.sleep(backoff); backoff *= 2; continue
http_retry(h) ==
    [h EXCEPT !.attempt = h.attempt + 1,
              !.sleeps = Append(h.sleeps, h.backoff),
              !.backoff = h.backoff * 2]

http_raise(h, e) == [h EXCEPT !.pc = "raised", !.result = e]

\* faulty variant: every status that is not ok is retried while attempts remain
http_on_response_retry_any(h, retries, o) ==
    IF ~ok(o.status_code) /\ h.attempt < retries
    THEN http_retry(h)
    ELSE IF ~ok(o.status_code)
    THEN http_raise(h, "HttpError")
    ELSE IF o.body = "json"
    THEN [h EXCEPT !.pc = "returned", !.result = "json"]
    ELSE http_raise(h, "JSONDecodeError")

\* the try block of one iteration, given the response
http_on_response(h, retries, o) ==
    IF o.status_code \in RetryStatuses /\ h.attempt < retries
    THEN http_retry(h)
    ELSE IF ~ok(o.status_code)
    THEN http_raise(h, "HttpError")
    ELSE IF o.body = "json"
    THEN [h EXCEPT !.pc = "returned", !.result = "json"]
    ELSE http_raise(h, "JSONDecodeError")

\* faulty variant: the last attempt's network error is swallowed
http_on_network_error_swallowed(h, retries, o) ==
    IF h.attempt < retries THEN http_retry(h)
    ELSE [h EXCEPT !.pc = "returned", !.result = "none"]

\* the except block of one iteration
http_on_network_error(h, retries, o) ==
    IF h.attempt < retries THEN http_retry(h) ELSE http_raise(h, "HttpError")

\* one iteration of the for loop: the request is issued, then handled
get_json_attempt(h, retries, o) ==
    LET sent == [h EXCEPT !.requests = h.requests + 1]
    IN  IF o.exc = "none"
        THEN http_on_response(sent, retries, o)
        ELSE http_on_network_error(sent, retries, o)

\* every way a get_json call can end, from the locals h
RECURSIVE get_json_ends(_, _)
get_json_ends(hs, retries) ==
    LET running == {h \in hs : h.pc = "attempt"}
        next == {get_json_attempt(h, retries, o) : h \in running, o \in Outcomes}
    IN  IF running = {} THEN hs
        ELSE get_json_ends((hs \ running) \cup next, retries)

\* max_pages=None
NoMaxPages == [given |-> FALSE, value |-> 0]

NoException == [exc |-> "none", page |-> 0]

NoMeta == [pages_traversed |-> 0, total_pages_api |-> 0, items_consolidated |-> 0]

NoReturn == [returned |-> FALSE, offers |-> <<>>, meta |-> NoMeta]

(***************************************************************************)
(* Paginator: JobOffersFetcher.                                            *)
(***************************************************************************)
\* A posting as the listing service sends it: a dict that may lack _id or
\* linkOffer (None below) or carry them empty.
Posting(i, l) ==
    [k \in {"titleJob"} \cup (IF i = None THEN {} ELSE {"_id"})
                        \cup (IF l = None THEN {} ELSE {"linkOffer"}) |->
        IF k = "_id" THEN i ELSE IF k = "linkOffer" THEN l ELSE "t"]

Postings ==
    {Posting("a", "b"), Posting("b", "a"), Posting(None, "a"),
     Posting("", "a"), Posting(None, None)}

\* resp.json() builds a new object for every element of results; addr is its
\* identity, which no other object alive in the run shares.
Objects(results, base) ==
    [i \in 1..Len(results) |-> [addr |-> base + i, item |-> results[i]]]

Items(objs) == [i \in 1..Len(objs) |-> objs[i].item]

\* str(id(item))
str_id(obj) == "@" \o ToString(obj.addr)

\* str(item.get("_id") or item.get("linkOffer") or id(item))
_dedupe_key(obj) ==
    LET first == Or(Get(obj.item, "_id"), Get(obj.item, "linkOffer"))
    IN  IF Truthy(first) THEN first ELSE str_id(obj)

\* faulty variant: seen.add(key) is forgotten
RECURSIVE add_batch_unmarked(_, _, _)
add_batch_unmarked(items, seen0, consolidated0) ==
    IF items = <<>>
    THEN [seen |-> seen0, consolidated |-> consolidated0]
    ELSE LET it == Head(items)
             key == _dedupe_key(it)
         IN  IF key \in seen0
             THEN add_batch_unmarked(Tail(items), seen0, consolidated0)
             ELSE add_batch_unmarked(Tail(items), seen0,
                                     Append(consolidated0, it))

\* add_batch(items), from the seen set and the consolidated list it closes over
RECURSIVE add_batch(_, _, _)
add_batch(items, seen0, consolidated0) ==
    IF items = <<>>
    THEN [seen |-> seen0, consolidated |-> consolidated0]
    ELSE LET it == Head(items)
             key == _dedupe_key(it)
         IN  IF key \in seen0
             THEN add_batch(Tail(items), seen0, consolidated0)
             ELSE add_batch(Tail(items), seen0 \cup {key},
                            Append(consolidated0, it))

EnvelopeKeys == {"results", "total", "totalPages", "page"}

\* The JSON value a page answers with: the keys it has, whether results is a
\* list, the postings and the totalPages it reports.
Envelope(results, tp) ==
    [keys |-> EnvelopeKeys, results_is_list |-> TRUE,
     results |-> results, totalPages |-> tp]

Envelopes(room) ==
    {Envelope(r, tp) : r \in SeqsUpTo(Postings, room), tp \in 0..MaxTotalPages}

MalformedEnvelopes ==
    {[Envelope(<<>>, 1) EXCEPT !.keys = EnvelopeKeys \ {k}] : k \in EnvelopeKeys}
        \cup {[Envelope(<<>>, 1) EXCEPT !.results_is_list = FALSE]}

\* fetch_page, given how its get_json call ended and the JSON value returned
fetch_page(end, data) ==
    IF end.pc = "raised"
    THEN [exc |-> end.result, data |-> data]
    ELSE IF data.keys # EnvelopeKeys
    THEN [exc |-> "ValueError", data |-> data]
    ELSE IF ~data.results_is_list
    THEN [exc |-> "TypeError", data |-> data]
    ELSE [exc |-> "none", data |-> data]

\* every result fetch_page can have when at most room postings are served
fetch_page_results(room) ==
    LET ends == get_json_ends({get_json_enter(max_retries, backoff_seconds)},
                              max_retries)
        fails == {e \in ends : e.pc = "raised"}
        returns == {e \in ends : e.pc = "returned"}
    IN  {fetch_page(e, Envelope(<<>>, 1)) : e \in fails}
            \cup {fetch_page(e, d) :
                    e \in returns, d \in Envelopes(room) \cup MalformedEnvelopes}

\* min(total_pages_api, max_pages) if max_pages is not None else total_pages_api
effective_total_pages(api, mp) ==
    IF mp.given THEN Min(api, mp.value) ELSE api

\* the meta dict
build_meta(pages, api, cons) ==
    [pages_traversed |-> pages, total_pages_api |-> api,
     items_consolidated |-> Len(cons)]

\* faulty variant: range(2, total_pages) leaves the last page out
in_range_exclusive(q, pages) == q < pages

\* for p in range(2, total_pages + 1): whether page q is still to be fetched
in_range(q, pages) == q <= pages

\* the rest of get_all_offers once page q has been added: the next iteration
\* of the loop, or the meta dict and the return
after_page(q, pages, api, cons) ==
    IF in_range(q + 1, pages)
    THEN /\ f_pc' = "loop"
         /\ p' = q + 1
         /\ ret' = NoReturn
    ELSE /\ f_pc' = "done"
         /\ p' = q
         /\ ret' = [returned |-> TRUE, offers |-> Items(cons),
                    meta |-> build_meta(pages, api, cons)]

\* faulty variant: the exception is caught and what was consolidated is returned
propagate_caught(q, r) ==
    /\ f_pc' = "done"
    /\ raised' = [exc |-> r.exc, page |-> q]
    /\ p' = q
    /\ ret' = [returned |-> TRUE, offers |-> Items(consolidated),
               meta |-> build_meta(q - 1, total_pages_api, consolidated)]

\* an exception of fetch_page(q) leaves get_all_offers
propagate(q, r) ==
    /\ f_pc' = "raised"
    /\ raised' = [exc |-> r.exc, page |-> q]
    /\ p' = q
    /\ ret' = NoReturn

Room == MaxPostings - Len(Flatten(fetched))

(***************************************************************************)
(* InferenceClient: GeminiAnalyzer._call_gemini_with_retries.              *)
(***************************************************************************)
\* What one attempt can end in: generate_content raises; the response has no
\* extractable text; the cleaned text is not JSON; it is JSON whose root is
\* no list; it is a JSON list.
FailureKinds == {"exception", "no_text", "malformed", "not_list"}

AttemptKinds == FailureKinds \cup {"list"}

\* the exception the except block catches
attempt_error(kind) ==
    CASE kind = "exception" -> "ServiceError"
      [] kind = "no_text" -> "RuntimeError"
      [] kind = "malformed" -> "JSONDecodeError"
      [] kind = "not_list" -> "ValueError"
      [] OTHER -> "none"

\* the locals of _call_gemini_with_retries on entry to the loop; response is
\* 0 while the name is unbound, else the attempt whose response it holds
call_gemini_enter(max_attempts, base) ==
    [pc |-> IF max_attempts >= 1 THEN "attempt" ELSE "returned",
     attempt |-> 1, backoff |-> base, calls |-> 0, sleeps |-> <<>>,
     response |-> 0,
     result |-> IF max_attempts >= 1 THEN "none" ELSE "empty"]

\* response = client.models.generate_content(...): the call is made, and the
\* name is bound unless the call raises
call_gemini_request(g, kind) ==
    [g EXCEPT !.calls = g.calls + 1,
              !.response = IF kind = "exception" THEN g.response ELSE g.attempt]

\* faulty variant: the file name leaves the attempt out
raw_path_without_attempt(idx, attempt) == "raw_batch" \o ToString(idx)

\* RAW_DIR / f"raw_batch{batch_idx}_attempt{attempt}_{ts}.json", for attempts
\* that fall in the same second ts
raw_path(idx, attempt) ==
    "raw_batch" \o ToString(idx) \o "_attempt" \o ToString(attempt)

\* the diagnostic file the except block writes: its path and its payload
diagnostic(g, idx, kind) ==
    [path |-> raw_path(idx, g.attempt), batch_idx |-> idx,
     attempt |-> g.attempt, error |-> attempt_error(kind),
     response_str |-> g.response]

\* open(raw_path, "w") and json.dump: a file of that path is replaced
write_file(files, file) ==
    IF \E i \in 1..Len(files) : files[i].path = file.path
    THEN [i \in 1..Len(files) |->
            IF files[i].path = file.path THEN file ELSE files[i]]
    ELSE Append(files, file)

\* the files under data/ after the attempt
write_diagnostic(files, g, idx, kind) ==
    IF kind \in FailureKinds
    THEN write_file(files, diagnostic(call_gemini_request(g, kind), idx, kind))
    ELSE files

\* faulty variant: the last attempt's exception is raised again
call_gemini_except_reraise(g, max_attempts) ==
    IF g.attempt < max_attempts
    THEN [g EXCEPT !.attempt = g.attempt + 1,
                   !.sleeps = Append(g.sleeps, g.backoff),
                   !.backoff = g.backoff * 2]
    ELSE [g EXCEPT !.pc = "raised", !.result = "raised"]

\* the except block after the file is written: sleep and continue, or return []
call_gemini_except(g, max_attempts) ==
    IF g.attempt < max_attempts
    THEN [g EXCEPT !.attempt = g.attempt + 1,
                   !.sleeps = Append(g.sleeps, g.backoff),
                   !.backoff = g.backoff * 2]
    ELSE [g EXCEPT !.pc = "returned", !.result = "empty"]

\* faulty variant: a parsed list does not end the loop while attempts remain
call_gemini_attempt_no_return(g, max_attempts, kind) ==
    LET called == call_gemini_request(g, kind)
    IN  IF kind = "list" /\ g.attempt < max_attempts
        THEN [called EXCEPT !.attempt = g.attempt + 1]
        ELSE IF kind = "list"
        THEN [called EXCEPT !.pc = "returned", !.result = "parsed"]
        ELSE call_gemini_except(called, max_attempts)

\* one iteration of the for loop
call_gemini_attempt(g, max_attempts, kind) ==
    LET called == call_gemini_request(g, kind)
    IN  IF kind = "list"
        THEN [called EXCEPT !.pc = "returned", !.result = "parsed"]
        ELSE call_gemini_except(called, max_attempts)

\* what the call returns: the list parsed in its last attempt, or []
returned_matches(result, parsed) ==
    IF result = "parsed" THEN parsed ELSE <<>>

\* every way a _call_gemini_with_retries call can end, from the locals gs
RECURSIVE _call_gemini_ends(_, _)
_call_gemini_ends(gs, max_attempts) ==
    LET running == {g \in gs : g.pc = "attempt"}
        next == {call_gemini_attempt(g, max_attempts, k) :
                    g \in running, k \in AttemptKinds}
    IN  IF running = {} THEN gs
        ELSE _call_gemini_ends((gs \ running) \cup next, max_attempts)

(***************************************************************************)
(* Consolidator: GeminiAnalyzer.filter_offers.                             *)
(***************************************************************************)
\* An id whose JSON value is a (non-empty) list: truthy, and unhashable.
UnhashableId == "<list>"

\* A match record as the service sends it: a dict that may lack id or
\* linkOffer (None below) or carry them empty.
MatchRecord(i, l, r) ==
    [k \in {"reason"} \cup (IF i = None THEN {} ELSE {"id"})
                      \cup (IF l = None THEN {} ELSE {"linkOffer"}) |->
        IF k = "id" THEN i ELSE IF k = "linkOffer" THEN l ELSE r]

Dict(d) == [type |-> "dict", d |-> d]

\* an element of the parsed list that is no dict (a number, a nested list)
Scalar == [type |-> "scalar", d |-> [k \in {} |-> ""]]

\* The elements a parsed list is made of.
Elements ==
    {Dict(MatchRecord("a", "b", "r")), Dict(MatchRecord("a", None, "s")),
     Dict(MatchRecord(None, "a", "r")), Dict(MatchRecord("", "b", "r")),
     Dict(MatchRecord(None, None, "r")),
     Dict(MatchRecord(UnhashableId, "b", "r")), Scalar}

SortedKeys == <<"id", "linkOffer", "reason">>

json_pair(d, k) == "\"" \o k \o "\": \"" \o d[k] \o "\""

RECURSIVE json_join(_, _)
json_join(d, ks) ==
    IF ks = <<>> THEN ""
    ELSE IF Len(ks) = 1 THEN json_pair(d, ks[1])
    ELSE json_pair(d, ks[1]) \o ", " \o json_join(d, Tail(ks))

\* json.dumps(m, sort_keys=True)
json_dumps(d) ==
    "{" \o json_join(d, SelectSeq(SortedKeys, LAMBDA k : k \in DOMAIN d)) \o "}"

\* faulty variant: the fallback to linkOffer is left out
match_key_without_link(d) ==
    LET key == Or(Get(d, "id"), None)
    IN  IF ~Truthy(key) THEN json_dumps(d) ELSE key

\* faulty variant: the key names the field it was taken from
match_key_by_field(d) ==
    IF Truthy(Get(d, "id")) THEN "id:" \o Get(d, "id")
    ELSE IF Truthy(Get(d, "linkOffer")) THEN "linkOffer:" \o Get(d, "linkOffer")
    ELSE json_dumps(d)

\* key = m.get("id") or m.get("linkOffer") or None; json.dumps(m) if not key
match_key(d) ==
    LET key == Or(Or(Get(d, "id"), Get(d, "linkOffer")), None)
    IN  IF ~Truthy(key) THEN json_dumps(d) ELSE key

\* the loop over batch_matches: m.get on an element that is no dict raises
\* AttributeError, and `key in seen_ids` on an unhashable key TypeError
RECURSIVE dedupe_matches(_, _, _)
dedupe_matches(ms, seen0, all0) ==
    IF ms = <<>>
    THEN [exc |-> "none", seen_ids |-> seen0, all_matches |-> all0]
    ELSE LET m == Head(ms)
         IN  IF m.type # "dict"
             THEN [exc |-> "AttributeError", seen_ids |-> seen0,
                   all_matches |-> all0]
             ELSE LET key == match_key(m.d)
                  IN  IF key = UnhashableId
                      THEN [exc |-> "TypeError", seen_ids |-> seen0,
                            all_matches |-> all0]
                      ELSE IF key \in seen0
                      THEN dedupe_matches(Tail(ms), seen0, all0)
                      ELSE dedupe_matches(Tail(ms), seen0 \cup {key},
                                          Append(all0, m))

\* range(0, n, step) for a step that is not 0
py_range(n, step) ==
    IF step > 0
    THEN [k \in 1..((n + step - 1) \div step) |-> (k - 1) * step]
    ELSE <<>>

\* faulty variant: only the full slices are kept
split_full_only(os, size) ==
    IF size > 0
    THEN [k \in 1..(Len(os) \div size) |->
            SubSeq(os, (k - 1) * size + 1, k * size)]
    ELSE <<>>

\* [offers[i: i + BATCH_SIZE] for i in range(0, len(offers), BATCH_SIZE)]
split(os, size) ==
    LET starts == py_range(Len(os), size)
    IN  [k \in 1..Len(starts) |->
            SubSeq(os, starts[k] + 1, Min(starts[k] + size, Len(os)))]

\* data/matches.json: absent, or holding a list
NoFile == [exists |-> FALSE, content |-> <<>>]

PriorFile == [exists |-> TRUE, content |-> <<Dict(MatchRecord("old", None, "r"))>>]

\* _save_filtered_offers(filtered)
_save_filtered_offers(filtered) == [exists |-> TRUE, content |-> filtered]

NoRaise == [exc |-> "none", batch_idx |-> 0]

NotReturned == [returned |-> FALSE, value |-> <<>>]

\* faulty variant: an empty batch ends the loop (break)
on_empty_batch_break(idx, total) == "finish"

\* the loop after batch idx of total: the next batch, or the end of the loop
loop_after(idx, total) == IF idx < total THEN "next" ELSE "finish"

\* `if not batch_matches: continue`
on_empty_batch(idx, total) == loop_after(idx, total)

\* the end of filter_offers: the save and the return
finish(matches) ==
    /\ a_pc' = "done"
    /\ matches_file' = _save_filtered_offers(matches)
    /\ a_ret' = [returned |-> TRUE, value |-> matches]
    /\ a_raised' = NoRaise

\* the next iteration of the loop over the batches
next_batch ==
    /\ a_pc' = "loop"
    /\ a_ret' = NotReturned
    /\ a_raised' = NoRaise
    /\ UNCHANGED matches_file

\* an exception leaves filter_offers
abort(exc, idx) ==
    /\ a_pc' = "raised"
    /\ a_raised' = [exc |-> exc, batch_idx |-> idx]
    /\ a_ret' = NotReturned
    /\ UNCHANGED matches_file

\* the elements the service has sent so far
Sent == Flatten([i \in 1..Len(batch_log) |-> batch_log[i].result])

MatchRoom == MaxMatches - Len(Sent)

(***************************************************************************)
(* Sanitizer: GeminiAnalyzer._clean_response_text and the parse that       *)
(* follows it. A text is the sequence of its characters.                   *)
(***************************************************************************)
\* the characters `, " and ', by name
BT == "backtick"

DQ == "dquote"

SQ == "squote"

Fence == <<BT, BT, BT>>

FenceJson == Fence \o <<"j", "s", "o", "n">>

TripleDouble == <<DQ, DQ, DQ>>

TripleSingle == <<SQ, SQ, SQ>>

NL == <<"\n">>

\* str.isspace of a character
IsSpace(c) == c \in {" ", "\n"}

\* s[n:]
drop_left(s, n) == SubSeq(s, n + 1, Len(s))

\* s[:-n]
drop_right(s, n) == SubSeq(s, 1, Len(s) - n)

RECURSIVE lstrip(_)
lstrip(s) ==
    IF s # <<>> /\ IsSpace(Head(s)) THEN lstrip(Tail(s)) ELSE s

RECURSIVE rstrip(_)
rstrip(s) ==
    IF s # <<>> /\ IsSpace(s[Len(s)]) THEN rstrip(drop_right(s, 1)) ELSE s

\* s.strip()
strip(s) == rstrip(lstrip(s))

\* s.startswith(prefix)
startswith(s, prefix) ==
    Len(s) >= Len(prefix) /\ SubSeq(s, 1, Len(prefix)) = prefix

\* s.endswith(suffix)
endswith(s, suffix) ==
    Len(s) >= Len(suffix) /\ SubSeq(s, Len(s) - Len(suffix) + 1, Len(s)) = suffix

\* if s.startswith("```json"): s = s[len("```json"):].strip()
strip_json_fence(s) ==
    IF startswith(s, FenceJson) THEN strip(drop_left(s, Len(FenceJson))) ELSE s

\* if s.startswith("```"): s = s[3:].strip()
strip_bare_fence(s) ==
    IF startswith(s, Fence) THEN strip(drop_left(s, 3)) ELSE s

\* if s.endswith("```"): s = s[:-3].strip()
strip_closing_fence(s) ==
    IF endswith(s, Fence) THEN strip(drop_right(s, 3)) ELSE s

\* the triple quotes: s = s[3:-3].strip()
strip_triple_quotes(s) ==
    IF \/ startswith(s, TripleDouble) /\ endswith(s, TripleDouble)
       \/ startswith(s, TripleSingle) /\ endswith(s, TripleSingle)
    THEN strip(SubSeq(s, 4, Len(s) - 3))
    ELSE s

\* _clean_response_text(text)
_clean_response_text(text) ==
    strip_triple_quotes(
        strip_closing_fence(strip_bare_fence(strip_json_fence(strip(text)))))

\* The JSON documents of the model, with the value json.loads gives for each.
JsonDocs ==
    {[text |-> <<"[", "]">>, root |-> "list", value |-> <<>>],
     [text |-> <<"[", "1", "]">>, root |-> "list", value |-> <<Scalar>>],
     [text |-> <<"{", "}">>, root |-> "dict", value |-> <<>>],
     [text |-> <<"1">>, root |-> "int", value |-> <<>>]}

\* json.loads(cleaned): the document's value, or JSONDecodeError for a text
\* that is no JSON document
json_loads(s) ==
    IF \E d \in JsonDocs : d.text = s
    THEN LET d == CHOOSE d \in JsonDocs : d.text = s
         IN  [exc |-> "none", root |-> d.root, value |-> d.value]
    ELSE [exc |-> "JSONDecodeError", root |-> "none", value |-> <<>>]

NotParsed == [kind |-> "none", parsed |-> <<>>]

\* the try block from the extracted text on: how the attempt ends
parse_attempt(text, cleaned) ==
    IF text = <<>>
    THEN [kind |-> "no_text", parsed |-> <<>>]
    ELSE LET loaded == json_loads(cleaned)
         IN  IF loaded.exc # "none"
             THEN [kind |-> "malformed", parsed |-> <<>>]
             ELSE IF loaded.root # "list"
             THEN [kind |-> "not_list", parsed |-> <<>>]
             ELSE [kind |-> "list", parsed |-> loaded.value]

\* The texts a response can carry: a document or nothing, between an opening
\* and a closing marker or none, with or without white space around.
Tags == {<<>>, <<"j", "s", "o", "n">>, <<"j", "s">>, <<"p", "y">>}

Opens == {<<>>, TripleDouble} \cup {Fence \o tag : tag \in Tags}

Closes == {<<>>, Fence, TripleDouble}

Bodies == {<<>>} \cup {d.text : d \in JsonDocs}

Texts ==
    {lead \o open \o sep1 \o body \o sep2 \o close :
        lead \in {<<>>, <<" ">>}, open \in Opens, sep1 \in {<<>>, NL},
        body \in Bodies, sep2 \in {<<>>, NL}, close \in Closes}

(***************************************************************************)
(* The parts of the pipeline a specification leaves out stay as they are   *)
(* before they run.                                                        *)
(***************************************************************************)
HttpIdle ==
    /\ max_retries = DEFAULT_MAX_RETRIES
    /\ backoff_seconds = DEFAULT_BACKOFF_SECONDS
    /\ http = get_json_enter(max_retries, backoff_seconds)
    /\ h_log = <<>>

FetchIdle ==
    /\ max_pages = NoMaxPages
    /\ f_pc = "idle"
    /\ total_pages_api = 0
    /\ total_pages = 0
    /\ p = 0
    /\ seen = {}
    /\ consolidated = <<>>
    /\ requested = <<>>
    /\ fetched = <<>>
    /\ later_disagree = FALSE
    /\ raised = NoException
    /\ ret = NoReturn

GeminiIdle ==
    /\ g_batch_idx = 0
    /\ gem = call_gemini_enter(MAX_ATTEMPTS, BACKOFF_SECONDS)
    /\ g_log = <<>>
    /\ g_artifacts = <<>>
    /\ g_parsed = <<>>

FilterIdle ==
    /\ offers = <<>>
    /\ a_pc = "idle"
    /\ batches = <<>>
    /\ batch_idx = 0
    /\ all_matches = <<>>
    /\ seen_ids = {}
    /\ batch_log = <<>>
    /\ matches_file = NoFile
    /\ a_raised = NoRaise
    /\ a_ret = NotReturned

CleanIdle ==
    /\ c_pc = "idle"
    /\ c_text = <<>>
    /\ c_cleaned = <<>>
    /\ c_result = NotParsed

AnalyzeIdle ==
    /\ MAX_ATTEMPTS = DEFAULT_MAX_ATTEMPTS
    /\ BACKOFF_SECONDS = DEFAULT_GEMINI_BACKOFF
    /\ BATCH_SIZE = DEFAULT_BATCH_SIZE
    /\ GeminiIdle
    /\ CleanIdle
    /\ FilterIdle

(***************************************************************************)
(* SpecHttp: a caller invokes get_json once.                               *)
(***************************************************************************)
InitHttp ==
    /\ max_retries \in 1..MaxRetries
    /\ backoff_seconds \in 1..MaxBackoffSeconds
    /\ http = get_json_enter(max_retries, backoff_seconds)
    /\ h_log = <<>>
    /\ FetchIdle
    /\ AnalyzeIdle

\* an iteration whose session.get yields a response
HttpResponse ==
    /\ http.pc = "attempt"
    /\ \E o \in Responses :
        /\ http' = get_json_attempt(http, max_retries, o)
        /\ h_log' = Append(h_log, o)
    /\ UNCHANGED <<max_retries, backoff_seconds, fetch_vars, analyze_vars>>

\* an iteration whose session.get raises Timeout or ConnectionError
HttpNetworkError ==
    /\ http.pc = "attempt"
    /\ \E o \in NetworkErrors :
        /\ http' = get_json_attempt(http, max_retries, o)
        /\ h_log' = Append(h_log, o)
    /\ UNCHANGED <<max_retries, backoff_seconds, fetch_vars, analyze_vars>>

NextHttp == HttpResponse \/ HttpNetworkError

SpecHttp == InitHttp /\ [][NextHttp]_vars

(***************************************************************************)
(* SpecFetch: one get_all_offers run of a fetcher with the default client. *)
(***************************************************************************)
InitFetch ==
    /\ max_retries = DEFAULT_MAX_RETRIES
    /\ backoff_seconds = DEFAULT_BACKOFF_SECONDS
    /\ http = get_json_enter(max_retries, backoff_seconds)
    /\ h_log = <<>>
    /\ max_pages \in {NoMaxPages}
            \cup {[given |-> TRUE, value |-> v] : v \in 0..MaxTotalPages}
    /\ f_pc = "start"
    /\ total_pages_api = 0
    /\ total_pages = 0
    /\ p = 1
    /\ seen = {}
    /\ consolidated = <<>>
    /\ requested = <<>>
    /\ fetched = <<>>
    /\ later_disagree = FALSE
    /\ raised = NoException
    /\ ret = NoReturn
    /\ AnalyzeIdle

\* get_all_offers up to the loop: fetch_page(1), total_pages, add_batch
GetAllOffersFirstPage ==
    /\ f_pc = "start"
    /\ requested' = Append(requested, 1)
    /\ \E r \in fetch_page_results(Room) :
        IF r.exc # "none"
        THEN /\ propagate(1, r)
             /\ UNCHANGED <<total_pages_api, total_pages, seen, consolidated,
                            fetched, later_disagree>>
        ELSE LET objs == Objects(r.data.results, Len(Flatten(fetched)))
                 api == r.data.totalPages
                 pages == effective_total_pages(api, max_pages)
                 acc == add_batch(objs, {}, <<>>)
             IN  /\ total_pages_api' = api
                 /\ total_pages' = pages
                 /\ seen' = acc.seen
                 /\ consolidated' = acc.consolidated
                 /\ fetched' = Append(fetched, objs)
                 /\ after_page(1, pages, api, acc.consolidated)
                 /\ UNCHANGED <<raised, later_disagree>>
    /\ UNCHANGED <<http_vars, max_pages, analyze_vars>>

\* one iteration of the loop over the remaining pages: fetch_page(p), add_batch
GetAllOffersNextPage ==
    /\ f_pc = "loop"
    /\ requested' = Append(requested, p)
    /\ \E r \in fetch_page_results(Room) :
        IF r.exc # "none"
        THEN /\ propagate(p, r)
             /\ UNCHANGED <<seen, consolidated, fetched, later_disagree>>
        ELSE LET objs == Objects(r.data.results, Len(Flatten(fetched)))
                 acc == add_batch(objs, seen, consolidated)
             IN  /\ seen' = acc.seen
                 /\ consolidated' = acc.consolidated
                 /\ fetched' = Append(fetched, objs)
                 /\ later_disagree' =
                        (later_disagree \/ r.data.totalPages # total_pages_api)
                 /\ after_page(p, total_pages, total_pages_api, acc.consolidated)
                 /\ UNCHANGED raised
    /\ UNCHANGED <<http_vars, max_pages, total_pages_api, total_pages,
                   analyze_vars>>

NextFetch == GetAllOffersFirstPage \/ GetAllOffersNextPage

SpecFetch == InitFetch /\ [][NextFetch]_vars

(***************************************************************************)
(* SpecGemini: filter_offers' loop calls _call_gemini_with_retries once.   *)
(***************************************************************************)
InitGemini ==
    /\ MAX_ATTEMPTS \in 1..MaxAttempts
    /\ BACKOFF_SECONDS \in 1..MaxBackoffSeconds
    /\ BATCH_SIZE = DEFAULT_BATCH_SIZE
    /\ g_batch_idx \in 1..2
    /\ gem = call_gemini_enter(MAX_ATTEMPTS, BACKOFF_SECONDS)
    /\ g_log = <<>>
    /\ g_artifacts = <<>>
    /\ g_parsed = <<>>
    /\ CleanIdle
    /\ FilterIdle
    /\ HttpIdle
    /\ FetchIdle

\* an attempt that ends in the except block
GeminiAttemptFails ==
    /\ gem.pc = "attempt"
    /\ \E kind \in FailureKinds :
        /\ gem' = call_gemini_attempt(gem, MAX_ATTEMPTS, kind)
        /\ g_artifacts' = write_diagnostic(g_artifacts, gem, g_batch_idx, kind)
        /\ g_log' = Append(g_log, kind)
    /\ UNCHANGED <<g_batch_idx, g_parsed, config_vars, clean_vars, filter_vars,
                   http_vars, fetch_vars>>

\* an attempt whose text parses to a list
GeminiAttemptParses ==
    /\ gem.pc = "attempt"
    /\ \E parsed \in SeqsUpTo(Elements, MaxListLen) :
        /\ gem' = call_gemini_attempt(gem, MAX_ATTEMPTS, "list")
        /\ g_artifacts' = write_diagnostic(g_artifacts, gem, g_batch_idx, "list")
        /\ g_log' = Append(g_log, "list")
        /\ g_parsed' = parsed
    /\ UNCHANGED <<g_batch_idx, config_vars, clean_vars, filter_vars, http_vars,
                   fetch_vars>>

NextGemini == GeminiAttemptFails \/ GeminiAttemptParses

SpecGemini == InitGemini /\ [][NextGemini]_vars

(***************************************************************************)
(* SpecFilter: one filter_offers run over the postings handed to it.       *)
(***************************************************************************)
InitFilter ==
    /\ MAX_ATTEMPTS = DEFAULT_MAX_ATTEMPTS
    /\ BACKOFF_SECONDS = DEFAULT_GEMINI_BACKOFF
    /\ BATCH_SIZE \in -1..MaxBatchSize
    /\ offers \in {[i \in 1..n |-> i] : n \in 0..MaxOffers}
    /\ matches_file \in {NoFile, PriorFile}
    /\ a_pc = "start"
    /\ batches = <<>>
    /\ batch_idx = 0
    /\ all_matches = <<>>
    /\ seen_ids = {}
    /\ batch_log = <<>>
    /\ a_raised = NoRaise
    /\ a_ret = NotReturned
    /\ GeminiIdle
    /\ CleanIdle
    /\ HttpIdle
    /\ FetchIdle

\* filter_offers up to the loop: the early return, the split into batches
FilterOffersBegin ==
    /\ a_pc = "start"
    /\ IF offers = <<>>
       THEN /\ a_pc' = "done"
            /\ a_ret' = [returned |-> TRUE, value |-> <<>>]
            /\ UNCHANGED <<batches, batch_idx, matches_file, a_raised>>
       ELSE IF BATCH_SIZE = 0
       THEN /\ abort("ValueError", 0)
            /\ UNCHANGED <<batches, batch_idx>>
       ELSE /\ batches' = split(offers, BATCH_SIZE)
            /\ IF batches' = <<>>
               THEN finish(all_matches) /\ UNCHANGED batch_idx
               ELSE next_batch /\ batch_idx' = 1
    /\ UNCHANGED <<offers, all_matches, seen_ids, batch_log, config_vars,
                   gemini_vars, clean_vars, http_vars, fetch_vars>>

\* one iteration of the loop over the batches: the call for the batch, the
\* dedup of what it returned and, after the last batch, the save and return
FilterOffersBatch ==
    /\ a_pc = "loop"
    /\ \E result \in
            {g.result : g \in _call_gemini_ends(
                {call_gemini_enter(MAX_ATTEMPTS, BACKOFF_SECONDS)}, MAX_ATTEMPTS)} :
       \E parsed \in (IF result = "parsed"
                      THEN SeqsUpTo(Elements, MatchRoom) ELSE {<<>>}) :
        LET batch_matches == returned_matches(result, parsed)
            acc == dedupe_matches(batch_matches, seen_ids, all_matches)
            total == Len(batches)
            then == IF batch_matches = <<>>
                    THEN on_empty_batch(batch_idx, total)
                    ELSE loop_after(batch_idx, total)
        IN  /\ batch_log' = Append(batch_log,
                    [idx |-> batch_idx, batch |-> batches[batch_idx],
                     exhausted |-> result = "empty", result |-> batch_matches])
            /\ seen_ids' = acc.seen_ids
            /\ all_matches' = acc.all_matches
            /\ IF result = "raised"
               THEN abort("Exception", batch_idx) /\ UNCHANGED batch_idx
               ELSE IF acc.exc # "none"
               THEN abort(acc.exc, batch_idx) /\ UNCHANGED batch_idx
               ELSE IF then = "next"
               THEN next_batch /\ batch_idx' = batch_idx + 1
               ELSE finish(acc.all_matches) /\ UNCHANGED batch_idx
    /\ UNCHANGED <<offers, batches, config_vars, gemini_vars, clean_vars,
                   http_vars, fetch_vars>>

NextFilter == FilterOffersBegin \/ FilterOffersBatch

SpecFilter == InitFilter /\ [][NextFilter]_vars

(***************************************************************************)
(* SpecClean: the try block of one attempt, from the extracted text on.    *)
(***************************************************************************)
InitClean ==
    /\ c_pc = "text"
    /\ c_text \in Texts
    /\ c_cleaned = <<>>
    /\ c_result = NotParsed
    /\ MAX_ATTEMPTS = DEFAULT_MAX_ATTEMPTS
    /\ BACKOFF_SECONDS = DEFAULT_GEMINI_BACKOFF
    /\ BATCH_SIZE = DEFAULT_BATCH_SIZE
    /\ GeminiIdle
    /\ FilterIdle
    /\ HttpIdle
    /\ FetchIdle

\* `if not text: raise`, else cleaned = self._clean_response_text(text)
CleanResponseText ==
    /\ c_pc = "text"
    /\ IF c_text = <<>>
       THEN /\ c_pc' = "done"
            /\ c_result' = parse_attempt(c_text, <<>>)
            /\ UNCHANGED c_cleaned
       ELSE /\ c_pc' = "cleaned"
            /\ c_cleaned' = _clean_response_text(c_text)
            /\ UNCHANGED c_result
    /\ UNCHANGED <<c_text, config_vars, gemini_vars, filter_vars, http_vars,
                   fetch_vars>>

\* parsed = json.loads(cleaned), the isinstance test and the return
ParseCleaned ==
    /\ c_pc = "cleaned"
    /\ c_pc' = "done"
    /\ c_result' = parse_attempt(c_text, c_cleaned)
    /\ UNCHANGED <<c_text, c_cleaned, config_vars, gemini_vars, filter_vars,
                   http_vars, fetch_vars>>

NextClean == CleanResponseText \/ ParseCleaned

SpecClean == InitClean /\ [][NextClean]_vars

(***************************************************************************)
(* Claims about the Transport.                                             *)
(***************************************************************************)
RetryableFailure(o) == o.exc # "none" \/ o.status_code \in RetryStatuses

FatalStatus(o) ==
    o.exc = "none" /\ ~ok(o.status_code) /\ o.status_code \notin RetryStatuses

AllRetryable(log) == \A i \in 1..Len(log) : RetryableFailure(log[i])

\* C1: a get_json call whose attempts all end in a retryable failure (status
\* 429/500/502/503/504, timeout or connection error, in any mix) issues exactly
\* max_retries requests, the first included, and then raises HttpError; it
\* never returns a value and never issues a request beyond max_retries.
C1_TransportExhaustion ==
    AllRetryable(h_log) =>
        /\ http.requests = Len(h_log)
        /\ http.requests <= max_retries
        /\ http.pc # "returned"
        /\ (http.requests < max_retries => http.pc = "attempt")
        /\ (http.requests = max_retries =>
                http.pc = "raised" /\ http.result = "HttpError")

C1_Witness ==
    /\ max_retries = 3
    /\ http.pc = "raised"
    /\ Len(h_log) = 3
    /\ AllRetryable(h_log)
    /\ h_log[1].status_code = 503
    /\ h_log[2].exc = "Timeout"
    /\ h_log[3].status_code = 429

UpTo(n) == [i \in 1..n |-> i]

\* C3: when the fetch of page p fails (get_json raises, the envelope lacks a
\* key, or results is no list), get_all_offers raises: it returns no posting
\* list and no metadata, page p is the last page requested and was requested
\* once, and nothing more is requested afterwards.
C3_PageFailureFatal ==
    raised.exc # "none" =>
        /\ f_pc = "raised"
        /\ ~ret.returned
        /\ ret = NoReturn
        /\ requested = UpTo(raised.page)
        /\ ~ENABLED NextFetch

C3_Witness ==
    /\ raised.exc = "HttpError"
    /\ raised.page = 2
    /\ consolidated # <<>>
    /\ total_pages = 3

\* C7: on a run without failure, with totalPages >= 1 reported by page 1 and
\* max_pages >= 1 or absent, get_all_offers requests exactly the pages 1..N,
\* N = min(totalPages, max_pages) (totalPages when max_pages is absent), each
\* once and in increasing order, and reports pages_traversed = N, whatever
\* totalPages the later pages report.
WalkLength ==
    IF max_pages.given /\ max_pages.value < total_pages_api
    THEN max_pages.value ELSE total_pages_api

C7_PageWalk ==
    (f_pc \in {"loop", "done"} /\ total_pages_api >= 1
        /\ (max_pages.given => max_pages.value >= 1)) =>
            /\ Len(requested) <= WalkLength
            /\ requested = UpTo(Len(requested))
            /\ Len(fetched) = Len(requested)
            /\ (f_pc = "loop" => ~ret.returned /\ Len(requested) < WalkLength)
            /\ (f_pc = "done" =>
                    /\ ret.returned
                    /\ requested = UpTo(WalkLength)
                    /\ ret.meta.pages_traversed = WalkLength)

C7_Witness ==
    /\ f_pc = "done"
    /\ total_pages_api = 3
    /\ max_pages = [given |-> TRUE, value |-> 2]
    /\ requested = <<1, 2>>
    /\ later_disagree

\* The postings of the run in the order received, and the ones a dedup by
\* key K keeps: those whose key no earlier posting of the run has.
Received == Flatten(fetched)

FirstOfKey(all, K(_), i) == \A j \in 1..(i - 1) : K(all[j]) # K(all[i])

RECURSIVE FirstOccurrences(_, _, _)
FirstOccurrences(all, K(_), n) ==
    IF n = 0 THEN <<>>
    ELSE IF FirstOfKey(all, K, n)
    THEN Append(FirstOccurrences(all, K, n - 1), all[n])
    ELSE FirstOccurrences(all, K, n - 1)

Present(item, k) == k \in DOMAIN item

NonEmpty(item, k) == k \in DOMAIN item /\ item[k] # ""

\* the key as the spec words it: _id if present, else linkOffer (a posting
\* with neither is left to its own identity)
PresentKey(obj) ==
    IF Present(obj.item, "_id") THEN obj.item["_id"]
    ELSE IF Present(obj.item, "linkOffer") THEN obj.item["linkOffer"]
    ELSE str_id(obj)

\* the key with "present" read as "present and not empty"
NonEmptyKey(obj) ==
    IF NonEmpty(obj.item, "_id") THEN obj.item["_id"]
    ELSE IF NonEmpty(obj.item, "linkOffer") THEN obj.item["linkOffer"]
    ELSE str_id(obj)

DedupedBy(K(_)) ==
    /\ consolidated = FirstOccurrences(Received, K, Len(Received))
    /\ \A i, j \in 1..Len(consolidated) :
            i # j => K(consolidated[i]) # K(consolidated[j])
    /\ (ret.returned =>
            /\ ret.offers = Items(consolidated)
            /\ ret.meta.items_consolidated = Len(ret.offers))

Keyless(item) == Get(item, "_id") = None /\ Get(item, "linkOffer") = None

C9_StructuralFallback ==
    ret.returned =>
        \A i, j \in 1..Len(ret.offers) :
            (i # j /\ Keyless(ret.offers[i]) /\ Keyless(ret.offers[j]))
                => ret.offers[i] # ret.offers[j]

(***************************************************************************)
(* Claims about the InferenceClient.                                       *)
(***************************************************************************)
AllFailed(log) == \A i \in 1..Len(log) : log[i] \in FailureKinds

\* C4: whatever the attempts of a _call_gemini_with_retries call end in
\* (service exception, no extractable text, malformed JSON, JSON whose root is
\* no list), the call never raises; when all attempts fail it makes exactly
\* MAX_ATTEMPTS service calls and returns an empty list.
C4_BatchDegrades ==
    /\ gem.pc # "raised"
    /\ gem.calls = Len(g_log)
    /\ AllFailed(g_log) =>
        /\ gem.calls <= MAX_ATTEMPTS
        /\ (gem.calls < MAX_ATTEMPTS => gem.pc = "attempt")
        /\ (gem.calls = MAX_ATTEMPTS =>
                /\ gem.pc = "returned"
                /\ returned_matches(gem.result, g_parsed) = <<>>)

C4_Witness ==
    /\ MAX_ATTEMPTS = 3
    /\ gem.pc = "returned"
    /\ g_log = <<"not_list", "exception", "malformed">>
    /\ gem.calls = 3

(***************************************************************************)
(* Claims about the Consolidator.                                          *)
(***************************************************************************)
\* a list of match records whose keys can be put in a set
WellFormed(ms) ==
    \A i \in 1..Len(ms) :
        ms[i].type = "dict" /\ Get(ms[i].d, "id") # UnhashableId

Exhausted == {i \in 1..Len(batch_log) : batch_log[i].exhausted}

\* the results of the batches that did not fail, in batch order
Survivors ==
    Flatten([i \in 1..Len(batch_log) |->
                IF batch_log[i].exhausted THEN <<>> ELSE batch_log[i].result])

\* the key as the spec words it: id if present and not empty, else linkOffer
\* (if present and not empty), else the sorted-key JSON text of the record
RecordKey(m) ==
    IF NonEmpty(m.d, "id") THEN m.d["id"]
    ELSE IF NonEmpty(m.d, "linkOffer") THEN m.d["linkOffer"]
    ELSE json_dumps(m.d)

\* C5: when a batch fails on every attempt while the other batches return
\* match records, filter_offers does not raise, goes on to submit every later
\* batch, and returns the deduplicated concatenation, in batch order, of the
\* results of the other batches.
C5_FailureIsolation ==
    (Cardinality(Exhausted) = 1
        /\ \A i \in 1..Len(batch_log) : WellFormed(batch_log[i].result)) =>
            /\ a_pc \in {"loop", "done"}
            /\ (a_pc = "loop" =>
                    batch_idx = Len(batch_log) + 1 /\ batch_idx <= Len(batches))
            /\ (a_pc = "done" =>
                    /\ Len(batch_log) = Len(batches)
                    /\ a_ret.returned
                    /\ a_ret.value =
                        FirstOccurrences(Survivors, RecordKey, Len(Survivors)))

C5_Witness ==
    /\ a_pc = "done"
    /\ Len(batches) = 3
    /\ Exhausted = {2}
    /\ batch_log[1].result # <<>>
    /\ batch_log[3].result # <<>>
    /\ Len(a_ret.value) = 2

\* C6: whatever text the service returns for a batch, filter_offers (with a
\* batch size >= 1) completes and returns a match list instead of raising.
C6_InferenceNeverAborts ==
    BATCH_SIZE >= 1 => a_pc # "raised" /\ a_raised.exc = "none"

\* C10: the list filter_offers returns is a subsequence of the concatenation
\* of the per-batch results in submission order that holds, for each dedup key,
\* the first record carrying it and no other.
C10_ConsolidatorDedup ==
    (a_ret.returned /\ offers # <<>>) =>
        /\ a_ret.value = FirstOccurrences(Sent, RecordKey, Len(Sent))
        /\ a_ret.value = all_matches
        /\ \A i, j \in 1..Len(a_ret.value) :
                i # j => RecordKey(a_ret.value[i]) # RecordKey(a_ret.value[j])

C10_Witness ==
    /\ a_ret.returned
    /\ Len(batch_log) = 2
    /\ batch_log[1].result =
            <<Dict(MatchRecord("", "b", "r")), Dict(MatchRecord(None, "a", "r"))>>
    /\ batch_log[2].result = <<Dict(MatchRecord("a", "b", "r"))>>
    /\ Len(a_ret.value) = 2

\* C11: filter_offers called with a non-empty posting list and BATCH_SIZE <= 0
\* fails with an error: it does not return a result and submits no batch.
C11_BatchSizeValidated ==
    (offers # <<>> /\ BATCH_SIZE <= 0 /\ a_pc # "start") =>
        /\ a_pc = "raised"
        /\ ~a_ret.returned
        /\ batch_log = <<>>

\* C12: for n >= 1 postings and a batch size b >= 1 the batches are ceil(n/b)
\* contiguous slices whose concatenation in order is the input; every batch but
\* the last has exactly b postings and the last between 1 and b; they are
\* submitted in that order with batch_idx running 1..ceil(n/b).
C12_BatchPartition ==
    (offers # <<>> /\ BATCH_SIZE >= 1 /\ a_pc # "start") =>
        LET n == Len(offers)
            b == BATCH_SIZE
            count == Len(batches)
        IN  /\ count * b >= n
            /\ (count - 1) * b < n
            /\ Flatten(batches) = offers
            /\ \A k \in 1..(count - 1) : Len(batches[k]) = b
            /\ Len(batches[count]) \in 1..b
            /\ Len(batch_log) <= count
            /\ \A k \in 1..Len(batch_log) :
                    batch_log[k].idx = k /\ batch_log[k].batch = batches[k]
            /\ (a_pc = "loop" => batch_idx = Len(batch_log) + 1)
            /\ (a_pc = "done" => Len(batch_log) = count)

C12_Witness ==
    /\ a_pc = "done"
    /\ offers = <<1, 2, 3>>
    /\ BATCH_SIZE = 2
    /\ Len(batch_log) = 2
    /\ batch_log[1].batch = <<1, 2>>
    /\ batch_log[2].batch = <<3>>

\* C13: whenever filter_offers returns, for any input including an empty
\* posting list, data/matches.json holds exactly the list that was returned;
\* a prior file at that location never survives a completed call.
C13_ArtifactFresh ==
    a_ret.returned => matches_file = _save_filtered_offers(a_ret.value)

\* the attempts of the call that failed so far
FailedAttempts == {i \in 1..Len(g_log) : g_log[i] \in FailureKinds}

\* C14: during a _call_gemini_with_retries call one diagnostic file is written
\* for each failed attempt, the last included, and none for a successful one;
\* the files of the batch are distinct and each records its own attempt
\* number, so there are as many files as failed attempts.
C14_ArtifactPerFailure ==
    /\ Len(g_artifacts) = Cardinality(FailedAttempts)
    /\ \A i, j \in 1..Len(g_artifacts) :
            i # j => g_artifacts[i].path # g_artifacts[j].path
    /\ {g_artifacts[k].attempt : k \in 1..Len(g_artifacts)} = FailedAttempts
    /\ \A k \in 1..Len(g_artifacts) :
            /\ g_artifacts[k].batch_idx = g_batch_idx
            /\ g_artifacts[k].error = attempt_error(g_log[g_artifacts[k].attempt])

C14_Witness ==
    /\ MAX_ATTEMPTS = 3
    /\ gem.pc = "returned"
    /\ g_log = <<"no_text", "malformed", "not_list">>
    /\ Len(g_artifacts) = 3
    /\ g_artifacts[3].attempt = 3

(***************************************************************************)
(* SpecBackoff: one call of either attempt loop, get_json (batch_idx 0: the *)
(* analyzer has not been entered) or _call_gemini_with_retries.            *)
(***************************************************************************)
InitBackoff == InitHttp \/ InitGemini

BackoffHttp == g_batch_idx = 0 /\ NextHttp

BackoffGemini == g_batch_idx >= 1 /\ NextGemini

NextBackoff == BackoffHttp \/ BackoffGemini

SpecBackoff == InitBackoff /\ [][NextBackoff]_vars

RECURSIVE Pow2(_)
Pow2(n) == IF n = 0 THEN 1 ELSE 2 * Pow2(n - 1)

\* the k-th sleep lasts base * 2^(k-1); no sleep before the first attempt, one
\* after every retried attempt, none after the final attempt
BackoffSchedule(made, sleeps, base, running) ==
    /\ \A k \in 1..Len(sleeps) : sleeps[k] = base * Pow2(k - 1)
    /\ (made = 0 => sleeps = <<>>)
    /\ (running => Len(sleeps) = made)
    /\ (~running => Len(sleeps) = made - 1)

\* C15: in get_json, for any mix of retried failures, the k-th backoff sleep
\* lasts backoff_seconds * 2^(k-1) and a call that makes a attempts sleeps
\* exactly a-1 times, never before the first attempt nor after the final one;
\* _call_gemini_with_retries follows the same schedule with BACKOFF_SECONDS
\* and MAX_ATTEMPTS.
C15_BackoffSchedule ==
    /\ BackoffSchedule(http.requests, http.sleeps, backoff_seconds,
                       http.pc = "attempt")
    /\ http.requests <= max_retries
    /\ BackoffSchedule(gem.calls, gem.sleeps, BACKOFF_SECONDS,
                       gem.pc = "attempt")
    /\ gem.calls <= MAX_ATTEMPTS

C15_Witness ==
    /\ max_retries = 3
    /\ backoff_seconds = 2
    /\ http.pc = "raised"
    /\ http.requests = 3
    /\ http.sleeps = <<2, 4>>
    /\ h_log[1].status_code = 429
    /\ h_log[2].exc = "ConnectionError"
    /\ h_log[3].exc = "Timeout"

(***************************************************************************)
(* Claims about the Sanitizer.                                             *)
(***************************************************************************)
\* an opening fence with the tag, the list document, a closing fence
Fenced(tag, doc) == Fence \o tag \o NL \o doc.text \o NL \o Fence

\* C16: for a JSON list L, the text made of an opening fence with no tag or
\* any language tag, L, and a closing fence sanitizes to text that parses to
\* L; a parsed root that is no list fails the attempt and is never wrapped
\* into a list.
C16_SanitizerFences ==
    c_pc = "done" =>
        /\ \A tag \in Tags, doc \in JsonDocs :
                (doc.root = "list" /\ c_text = Fenced(tag, doc)) =>
                    c_result = [kind |-> "list", parsed |-> doc.value]
        /\ \A doc \in JsonDocs :
                (doc.root # "list" /\ c_cleaned = doc.text) =>
                    c_result = [kind |-> "not_list", parsed |-> <<>>]

\* C17: the diagnostic file of attempt k records the response obtained in
\* attempt k itself; when the service call of attempt k raised, its
\* response_str is null (0 here), even if an earlier attempt of the batch had
\* obtained a response.
C17_ArtifactOwnResponse ==
    \A k \in 1..Len(g_artifacts) :
        LET file == g_artifacts[k]
        IN  IF g_log[file.attempt] = "exception"
            THEN file.response_str = 0
            ELSE file.response_str = file.attempt

\* C18: the first attempt whose text parses to a JSON list, the empty list
\* included, ends the loop: the call returns exactly that list, makes no
\* further service call, sleeps no more and writes no file for that attempt;
\* an attempt with no extractable text or a non-list root is followed by
\* another attempt when attempts remain.
C18_StopOnFirstSuccess ==
    /\ \A i \in 1..Len(g_log) :
            g_log[i] = "list" =>
                /\ i = Len(g_log)
                /\ gem.pc = "returned"
                /\ returned_matches(gem.result, g_parsed) = g_parsed
                /\ gem.calls = i
                /\ Len(gem.sleeps) = i - 1
                /\ Len(g_artifacts) = i - 1
                /\ \A k \in 1..Len(g_artifacts) : g_artifacts[k].attempt # i
    /\ (g_log # <<>> /\ g_log[Len(g_log)] \in {"no_text", "not_list"}
            /\ Len(g_log) < MAX_ATTEMPTS) =>
                /\ gem.pc = "attempt"
                /\ gem.attempt = Len(g_log) + 1

C18_Witness ==
    /\ MAX_ATTEMPTS = 3
    /\ g_log = <<"list">>
    /\ g_parsed = <<>>
    /\ gem.pc = "returned"
    /\ gem.calls = 1
    /\ g_artifacts = <<>>

\* the key with the field it was taken from: records share it only when they
\* have the same non-empty id, or both lack an id and have the same linkOffer,
\* or both lack id and linkOffer and serialize identically
FieldKey(m) ==
    IF NonEmpty(m.d, "id") THEN "id:" \o m.d["id"]
    ELSE IF NonEmpty(m.d, "linkOffer") THEN "linkOffer:" \o m.d["linkOffer"]
    ELSE json_dumps(m.d)

\* a record with id X before a record without id whose linkOffer is X
CrossField(first, second) ==
    /\ NonEmpty(first.d, "id")
    /\ ~NonEmpty(second.d, "id")
    /\ NonEmpty(second.d, "linkOffer")
    /\ second.d["linkOffer"] = first.d["id"]

\* C19 as stated: filter_offers drops a match record only when an earlier
\* record of the run has the same non-empty id, or both lack an id and have
\* the same linkOffer, or both lack id and linkOffer and serialize
\* identically; a record with id X and a record without id whose linkOffer is
\* X are both kept.
C19_DropOnlySameField ==
    (a_ret.returned /\ offers # <<>>) =>
        a_ret.value = FirstOccurrences(Sent, FieldKey, Len(Sent))

\* C19, amended: filter_offers drops a match record exactly when an earlier
\* record of the run has the same key, whichever field the key was taken
\* from: one record is kept per key, each the first to carry it, and of a
\* record with id X and a later record without id whose linkOffer is X only
\* the first is kept.
C19_DropOnSameKey ==
    (a_ret.returned /\ offers # <<>>) =>
        /\ Len(a_ret.value) =
                Cardinality({RecordKey(Sent[j]) : j \in 1..Len(Sent)})
        /\ \A k \in 1..Len(a_ret.value) :
                \E j \in 1..Len(Sent) :
                    a_ret.value[k] = Sent[j] /\ FirstOfKey(Sent, RecordKey, j)
        /\ \A i, j \in 1..Len(Sent) :
                (i < j /\ FirstOfKey(Sent, RecordKey, i)
                    /\ CrossField(Sent[i], Sent[j])) =>
                        \A k \in 1..Len(a_ret.value) : a_ret.value[k] # Sent[j]

C19_Witness ==
    /\ a_ret.returned
    /\ Len(batch_log) = 2
    /\ batch_log[1].result = <<Dict(MatchRecord("a", "b", "r"))>>
    /\ batch_log[2].result = <<Dict(MatchRecord(None, "a", "r"))>>
    /\ a_ret.value = <<Dict(MatchRecord("a", "b", "r"))>>

\* C20: for every totalPages reported by page 1 and every max_pages, values
\* <= 0 included, the pages_traversed counter get_all_offers returns is the
\* number of pages the run requested, and total_pages_api is the totalPages
\* of page 1.
C20_MetadataMatchesWalk ==
    ret.returned =>
        /\ ret.meta.pages_traversed = Len(requested)
        /\ ret.meta.total_pages_api = total_pages_api

====
